---- MODULE Spec2Model ----
(***************************************************************************)
(* A model of bfore/maplike.py: the MapLike map-based likelihood.          *)
(*                                                                         *)
(* Arrays are sequences indexed from 1 (the code's index i is i+1 here);   *)
(* pixel and region numbers keep the code's numbering from 0.  Python      *)
(* floats are modelled as exact numbers: the inputs are integers, and a    *)
(* quotient is a reduced fraction <<numerator, denominator>>, so rounding  *)
(* is not part of the model.  An operation that raises is modelled by a    *)
(* result whose err field names the exception.                             *)
(***************************************************************************)
EXTENDS Integers, Sequences, FiniteSets, TLC

\* Bounds of the model.
MaxOrder == 2   \* nside ranges over 2^0 .. 2^MaxOrder
MaxVar == 2     \* longest var_pars list and longest parameter vector
MaxPix == 2     \* most pixels in a d_map / n_ivar_map handed to the estimator
MaxPol == 2     \* most polarization channels of the sky model's response

\* Python's None and an optional argument that is given.  An attribute the
\* constructor has not set yet holds Unset.
None == <<>>
Some(x) == <<x>>
Unset == <<>>

\* ------------------------------------------------------------ arithmetic

Abs(x) == IF x < 0 THEN -x ELSE x

RECURSIVE Gcd(_, _)
Gcd(a, b) == IF b = 0 THEN a ELSE Gcd(b, a % b)

\* The fraction n/d (d # 0) in lowest terms with a positive denominator.
Rat(n, d) ==
    LET g == Gcd(Abs(n), Abs(d))
        s == IF d < 0 THEN -1 ELSE 1
    IN  <<(s * n) \div g, (s * d) \div g>>

Q(n) == <<n, 1>>
RAdd(x, y) == Rat(x[1] * y[2] + y[1] * x[2], x[2] * y[2])
RSub(x, y) == Rat(x[1] * y[2] - y[1] * x[2], x[2] * y[2])
RMul(x, y) == Rat(x[1] * y[1], x[2] * y[2])
RDiv(x, y) == Rat(x[1] * y[2], x[2] * y[1])

RECURSIVE Pow(_, _)
Pow(b, e) == IF e = 0 THEN 1 ELSE b * Pow(b, e - 1)

RECURSIVE SumUpTo(_, _)
SumUpTo(f, n) == IF n = 0 THEN 0 ELSE f[n] + SumUpTo(f, n - 1)

\* The sum of the integers f[1], ..., f[Len(f)].
SumInt(f) == SumUpTo(f, Len(f))

RECURSIVE RSumUpTo(_, _)
RSumUpTo(f, n) == IF n = 0 THEN Q(0) ELSE RAdd(f[n], RSumUpTo(f, n - 1))

\* The sum of the fractions f[1], ..., f[Len(f)].
SumRat(f) == RSumUpTo(f, Len(f))

Min(a, b) == IF a < b THEN a ELSE b

\* --------------------------------------------------------------- HEALPix
\* healpy's pixel functions, as MapLike calls them.  A nested pixel number
\* is face * nside^2 + the bit-interleaving of (ix, iy) inside the face;
\* the ring number counts pixels along iso-latitude rings from the north.

Nsides == {Pow(2, o) : o \in 0..MaxOrder}

nside2npix(nside) == 12 * nside * nside

jrll == <<2, 2, 2, 2, 3, 3, 3, 3, 4, 4, 4, 4>>
jpll == <<1, 3, 5, 7, 0, 2, 4, 6, 1, 3, 5, 7>>

RECURSIVE CompressBits(_)
\* The number made of the even-position bits of n.
CompressBits(n) == IF n = 0 THEN 0 ELSE (n % 2) + 2 * CompressBits(n \div 4)

nest2xyf(nside, ipnest) ==
    LET npface == nside * nside
        pix == ipnest % npface
    IN  [face |-> ipnest \div npface,
         ix |-> CompressBits(pix),
         iy |-> CompressBits(pix \div 2)]

xyf2ring(nside, ix, iy, face) ==
    LET nl4 == 4 * nside
        ncap == 2 * nside * (nside - 1)
        jr == jrll[face + 1] * nside - ix - iy - 1
        nr == IF jr < nside THEN jr
              ELSE IF jr > 3 * nside THEN nl4 - jr
              ELSE nside
        n_before == IF jr < nside THEN 2 * nr * (nr - 1)
                    ELSE IF jr > 3 * nside
                         THEN nside2npix(nside) - 2 * (nr + 1) * nr
                    ELSE ncap + (jr - nside) * nl4
        kshift == IF jr < nside \/ jr > 3 * nside THEN 0 ELSE (jr - nside) % 2
        jp0 == (jpll[face + 1] * nr + ix - iy + 1 + kshift) \div 2
        jp == IF jp0 > nl4 THEN jp0 - nl4
              ELSE IF jp0 < 1 THEN jp0 + nl4
              ELSE jp0
    IN  n_before + jp - 1

nest2ring1(nside, ipnest) ==
    LET p == nest2xyf(nside, ipnest)
    IN  xyf2ring(nside, p.ix, p.iy, p.face)

\* hp.nest2ring on a list of nested pixel numbers.
nest2ring(nside, ipnests) ==
    [k \in 1..Len(ipnests) |-> nest2ring1(nside, ipnests[k])]

\* Python's range(lo, hi) as a list.
Range(lo, hi) == [k \in 1..(IF hi > lo THEN hi - lo ELSE 0) |-> lo + k - 1]

\* ------------------------------------------------------------- sky model
\* The SkyModel object MapLike is given (bfore/skymodel.py).  A sky model
\* is a list of components and a number of polarization channels; each
\* component names the spectral parameters it needs and gives its response
\* at a frequency.  fnu returns an array indexed (component, polarization,
\* frequency) and raises KeyError when a parameter it needs is missing.

ParNames == {"beta_s", "beta_d"}
ParVals == {0, 1, 2}

CompParams(c) ==
    CASE c = "syncpl" -> {"beta_s"}
      [] c = "dustpl" -> {"beta_d"}
      [] OTHER -> {}

CompResponse(c, nu, params) ==
    CASE c = "syncpl" -> Pow(nu, params["beta_s"])
      [] c = "dustpl" -> Pow(nu, params["beta_d"])
      [] OTHER -> 1

SkyComps == {<<"cmb">>, <<"syncpl", "cmb">>, <<"syncpl", "dustpl", "cmb">>}
SkyModels == [comps : SkyComps, npol : 1..MaxPol]

get_param_names(skymodel) ==
    UNION {CompParams(skymodel.comps[i]) : i \in 1..Len(skymodel.comps)}

\* What an operation hands back: the value it returns or the exception it
\* raises, and the calls it made to sky.fnu, in order.
Return(v, cs) == [err |-> "none", val |-> v, calls |-> cs]
Raise(e, cs) == [err |-> e, val |-> None, calls |-> cs]

fnu(skymodel, freqs, params) ==
    LET call == <<[nus |-> freqs, params |-> params]>>
    IN  IF ~(get_param_names(skymodel) \subseteq DOMAIN params)
        THEN Raise("KeyError", call)
        ELSE Return([i \in 1..Len(skymodel.comps) |->
                      [j \in 1..skymodel.npol |->
                        [k \in 1..Len(freqs) |->
                          CompResponse(skymodel.comps[i], freqs[k], params)]]],
                    call)

\* ------------------------------------------------- MapLike: configuration
\* check_parameters: what it prints, and whether it returns ("none") or
\* leaves through exit(), which raises SystemExit.
DeclaredTwice(fixed, var) ==
    \E i \in 1..Len(var) : var[i] \in DOMAIN fixed

ConfigPars(fixed, var) == DOMAIN fixed \cup {var[i] : i \in 1..Len(var)}

\* A slip: the messages are printed and exit() is forgotten.
check_parameters_no_exit(skymodel, fixed, var) ==
    IF DeclaredTwice(fixed, var)
    THEN [err |-> "none",
          printed |-> "Check parameter not in both fixed and variable parameters."]
    ELSE IF get_param_names(skymodel) # ConfigPars(fixed, var)
    THEN [err |-> "none",
          printed |-> "Parameter mismatch between model and MapLike configuration"]
    ELSE [err |-> "none", printed |-> ""]

check_parameters(skymodel, fixed, var) ==
    IF DeclaredTwice(fixed, var)
    THEN [err |-> "SystemExit",
          printed |-> "Check parameter not in both fixed and variable parameters."]
    ELSE IF get_param_names(skymodel) # ConfigPars(fixed, var)
    THEN [err |-> "SystemExit",
          printed |-> "Parameter mismatch between model and MapLike configuration"]
    ELSE [err |-> "none", printed |-> ""]

\* ------------------------------------------------ MapLike: mixing matrix
\* {name: value for name, value in zip(names, vals)}: zip stops at the
\* shorter list, and a later pair replaces an earlier one of the same name.
ZipDict(names, vals) ==
    LET m == Min(Len(names), Len(vals))
        last(k) == CHOOSE i \in 1..m :
                      /\ names[i] = k
                      /\ \A j \in 1..m : names[j] = k => j <= i
    IN  [k \in {names[i] : i \in 1..m} |-> vals[last(k)]]

\* d.update(e): the entries of e replace those of d.
DictUpdate(d, e) == e @@ d

\* A slip: the fixed parameters are left out of the mapping.
f_matrix_no_fixed(self, var_pars_list) ==
    fnu(self.sky, self.nus, ZipDict(self.var_pars, var_pars_list))

f_matrix(self, var_pars_list) ==
    LET spec_params == DictUpdate(ZipDict(self.var_pars, var_pars_list),
                                  self.fixed_pars)
    IN  fnu(self.sky, self.nus, spec_params)

\* --------------------------------------------- MapLike: amplitude solver
\* Array shapes: f_matrix (N_comp, N_pol, N_freq); d_map and n_ivar_map
\* (N_freq, N_pol, N_pix).
NComp(fm) == Len(fm)
NPol(fm) == Len(fm[1])
NFreq(fm) == Len(fm[1][1])
NPix(map) == Len(map[1][1])

\* np.einsum("ijk,ljk->jilk", f_matrix, f_matrix)
FMatOuter(fm) ==
    [j \in 1..NPol(fm) |-> [i \in 1..NComp(fm) |-> [l \in 1..NComp(fm) |->
        [k \in 1..NFreq(fm) |-> fm[i][j][k] * fm[l][j][k]]]]]

\* np.einsum("ijkl,lin->injk", f_mat_outer, n_ivar_map)
AmpCovarInv(fm, n_ivar_map) ==
    LET outer == FMatOuter(fm)
    IN  [i \in 1..NPol(fm) |-> [n \in 1..NPix(n_ivar_map) |->
            [j \in 1..NComp(fm) |-> [k \in 1..NComp(fm) |->
                SumInt([l \in 1..NFreq(fm) |->
                            outer[i][j][k][l] * n_ivar_map[l][i][n]])]]]]

get_amplitude_covariance(self, n_ivar_map, spec_params, fm_arg) ==
    LET f == IF fm_arg = None THEN f_matrix(self, spec_params)
             ELSE Return(fm_arg[1], <<>>)
    IN  IF f.err # "none" THEN f
        ELSE Return(AmpCovarInv(f.val, n_ivar_map), f.calls)

\* np.einsum("jik,kil,kil->ilj", f_matrix, n_ivar_map, d_map)
WeightedData(fm, n_ivar_map, d_map) ==
    [i \in 1..NPol(fm) |-> [l \in 1..NPix(d_map) |-> [j \in 1..NComp(fm) |->
        SumInt([k \in 1..NFreq(fm) |->
                    fm[j][i][k] * n_ivar_map[k][i][l] * d_map[k][i][l]])]]]

\* The matrix a without row r and column c.
Minor(a, r, c) ==
    [i \in 1..(Len(a) - 1) |-> [j \in 1..(Len(a) - 1) |->
        a[IF i < r THEN i ELSE i + 1][IF j < c THEN j ELSE j + 1]]]

RECURSIVE Det(_)
Det(a) ==
    IF Len(a) = 0 THEN 1
    ELSE IF Len(a) = 1 THEN a[1][1]
    ELSE SumInt([c \in 1..Len(a) |->
                    (IF c % 2 = 1 THEN 1 ELSE -1) * a[1][c] * Det(Minor(a, 1, c))])

ReplaceCol(a, c, b) ==
    [i \in 1..Len(a) |-> [j \in 1..Len(a) |-> IF j = c THEN b[i] ELSE a[i][j]]]

\* The solution x of a x = b for a nonsingular square a, which is the
\* one LAPACK's gesv returns in exact arithmetic.
SolveOne(a, b) ==
    [j \in 1..Len(a) |-> Rat(Det(ReplaceCol(a, j, b)), Det(a))]

\* np.linalg.solve(a, b) on stacks a (N_pol, N_pix, M, M) and
\* b (N_pol, N_pix, M): LinAlgError when gesv meets a singular slice.
LinalgSolve(a, b, cs) ==
    IF \E i \in 1..Len(a) : \E l \in 1..Len(a[i]) : Det(a[i][l]) = 0
    THEN Raise("LinAlgError", cs)
    ELSE Return([i \in 1..Len(a) |-> [l \in 1..Len(a[i]) |->
                    SolveOne(a[i][l], b[i][l])]], cs)

\* A result together with the methods of self that were called to get it.
Invoked(res, methods) == [invoked |-> methods] @@ res

\* A slip (the one chi2 makes in its call): the matrices the caller
\* supplied are dropped and both are computed again.
get_amplitude_mean_anew(self, d_map, n_ivar_map, spec_params, fm_arg, nt_arg) ==
    LET f == f_matrix(self, spec_params)
    IN  IF f.err # "none" THEN Invoked(f, <<"f_matrix">>)
        ELSE LET nt == get_amplitude_covariance(self, n_ivar_map,
                                                spec_params, Some(f.val))
                 y == WeightedData(f.val, n_ivar_map, d_map)
             IN  Invoked(LinalgSolve(nt.val, y, f.calls \o nt.calls),
                         <<"f_matrix", "get_amplitude_covariance">>)

get_amplitude_mean(self, d_map, n_ivar_map, spec_params, fm_arg, nt_arg) ==
    LET f == IF fm_arg = None THEN f_matrix(self, spec_params)
             ELSE Return(fm_arg[1], <<>>)
        fcall == IF fm_arg = None THEN <<"f_matrix">> ELSE <<>>
    IN  IF f.err # "none" THEN Invoked(f, fcall)
        ELSE LET nt == IF nt_arg = None
                       THEN get_amplitude_covariance(self, n_ivar_map,
                                                     spec_params, Some(f.val))
                       ELSE Return(nt_arg[1], <<>>)
                 ntcall == IF nt_arg = None
                           THEN <<"get_amplitude_covariance">> ELSE <<>>
                 y == WeightedData(f.val, n_ivar_map, d_map)
             IN  Invoked(LinalgSolve(nt.val, y, f.calls \o nt.calls),
                         fcall \o ntcall)

\* -------------------------------------------------- MapLike: statistics
\* np.einsum("ijk,ijkl,ijl->", amp_mean, amp_covar_matrix, amp_mean)
QuadraticForm(amp, cov) ==
    SumRat([i \in 1..Len(amp) |->
        SumRat([j \in 1..Len(amp[i]) |->
            SumRat([k \in 1..Len(amp[i][j]) |->
                SumRat([l \in 1..Len(amp[i][j]) |->
                    RMul(RMul(amp[i][j][k], Q(cov[i][j][k][l])), amp[i][j][l])])])])])

marginal_spectral_likelihood(self, spec_params, d_map, n_ivar_map) ==
    LET f == f_matrix(self, spec_params)
    IN  IF f.err # "none" THEN f
        ELSE LET cov == get_amplitude_covariance(self, n_ivar_map, spec_params,
                                                 Some(f.val))
                 amp == get_amplitude_mean(self, d_map, n_ivar_map, spec_params,
                                           Some(f.val), Some(cov.val))
                 cs == f.calls \o cov.calls \o amp.calls
             IN  IF amp.err # "none" THEN Raise(amp.err, cs)
                 ELSE Return(QuadraticForm(amp.val, cov.val), cs)

\* A slip: the projected amplitudes added to the data.
ResidualPlus(d_map, fm, amp) ==
    [k \in 1..Len(d_map) |-> [j \in 1..Len(d_map[k]) |->
        [l \in 1..Len(d_map[k][j]) |->
            RAdd(Q(d_map[k][j][l]),
                 SumRat([i \in 1..NComp(fm) |->
                            RMul(Q(fm[i][j][k]), amp[j][l][i])]))]]]

\* d_map - np.einsum("ijk,jli->kjl", f_matrix, amp_mean)
Residual(d_map, fm, amp) ==
    [k \in 1..Len(d_map) |-> [j \in 1..Len(d_map[k]) |->
        [l \in 1..Len(d_map[k][j]) |->
            RSub(Q(d_map[k][j][l]),
                 SumRat([i \in 1..NComp(fm) |->
                            RMul(Q(fm[i][j][k]), amp[j][l][i])]))]]]

\* np.einsum("ijk,ijk,ijk->", res, n_ivar_map, res)
WeightedSquares(res, n_ivar_map) ==
    SumRat([i \in 1..Len(res) |->
        SumRat([j \in 1..Len(res[i]) |->
            SumRat([k \in 1..Len(res[i][j]) |->
                RMul(RMul(res[i][j][k], Q(n_ivar_map[i][j][k])), res[i][j][k])])])])

\* len(x.flatten()) of a three-axis array.
FlatLen(x) ==
    SumInt([i \in 1..Len(x) |->
               SumInt([j \in 1..Len(x[i]) |-> Len(x[i][j])])])

\* The dof chi2 computes and drops (line 300).
Chi2Dof(self, d_map, amp) == FlatLen(d_map) - Len(self.var_pars) - FlatLen(amp)

\* chi2 computes the amplitudes with f_matrix=None whatever it was given,
\* so get_amplitude_mean asks the sky model again; the matrix chi2 was
\* given (or computed itself) only re-projects them.
chi2(self, spec_params, d_map, n_ivar_map, fm_arg) ==
    LET f == IF fm_arg = None THEN f_matrix(self, spec_params)
             ELSE Return(fm_arg[1], <<>>)
    IN  IF f.err # "none" THEN f
        ELSE LET amp == get_amplitude_mean(self, d_map, n_ivar_map, spec_params,
                                           None, None)
                 cs == f.calls \o amp.calls
             IN  IF amp.err # "none" THEN Raise(amp.err, cs)
                 ELSE Return(WeightedSquares(Residual(d_map, f.val, amp.val),
                                             n_ivar_map), cs)

\* chi2perdof and pval read amp_mean, a name neither of them binds:
\* once chi2 has returned, the next line raises NameError.
chi2perdof(self, spec_params, d_map, n_ivar_map, fm_arg) ==
    LET c == chi2(self, spec_params, d_map, n_ivar_map, fm_arg)
    IN  IF c.err # "none" THEN c ELSE Raise("NameError", c.calls)

pval(self, spec_params, d_map, n_ivar_map, fm_arg) ==
    LET c == chi2(self, spec_params, d_map, n_ivar_map, fm_arg)
    IN  IF c.err # "none" THEN c ELSE Raise("NameError", c.calls)

\* ---------------------------------------------------- MapLike: the data
NField == 3   \* read_hpix_maps reads field=(0, 1, 2) of every file

\* hp.get_nside(map): the nside whose pixel count is the map's length.
get_nside(map) == CHOOSE n \in 1..Len(map) : nside2npix(n) = Len(map)

\* arr[:, :, inds] for a list inds of pixel numbers.
TakePixels(arr, inds) ==
    [k \in 1..Len(arr) |-> [j \in 1..Len(arr[k]) |->
        [l \in 1..Len(inds) |-> arr[k][j][inds[l] + 1]]]]

\* A slip the name nside_sub invites: the ratio of the nsides.
NsideSubOfNsides(nside_spec_, nside_base_) == nside_base_ \div nside_spec_

\* int(npix_base / npix_spec)
NsideSub(nside_spec_, nside_base_) ==
    nside2npix(nside_base_) \div nside2npix(nside_spec_)

\* A slip: the nested numbers used as they are, without nest2ring.
SplitIndsNested(nside_spec_, nside_base_, i) ==
    LET nside_sub == NsideSub(nside_spec_, nside_base_)
    IN  Range(i * nside_sub, (i + 1) * nside_sub)

\* The base pixels (ring numbers) split_data takes for region i.
SplitInds(nside_spec_, nside_base_, i) ==
    LET nside_sub == NsideSub(nside_spec_, nside_base_)
    IN  nest2ring(nside_base_, Range(i * nside_sub, (i + 1) * nside_sub))

\* The regions split_data visits for its argument ipix: None, an int i
\* (val is <<i>>), a list (val), or a value of another type, which leaves
\* ipixs unbound.
SplitRegions(nside_spec_, ipix) ==
    CASE ipix.kind = "none" -> Range(0, nside2npix(nside_spec_))
      [] ipix.kind = "int" -> <<ipix.val[1]>>
      [] ipix.kind = "list" -> ipix.val
      [] OTHER -> <<>>

\* split_data, run to the end of its generator: the list of what it yields.
split_data(self, ipix) ==
    IF ipix.kind \notin {"none", "int", "list"}
    THEN Raise("UnboundLocalError", <<>>)
    ELSE LET ipixs == SplitRegions(self.nside_spec, ipix)
         IN  Return([k \in 1..Len(ipixs) |->
                        LET inds == SplitInds(self.nside_spec, self.nside_base,
                                              ipixs[k])
                        IN  <<TakePixels(self.data_mean, inds),
                              TakePixels(self.data_vars, inds)>>],
                    <<>>)

\* ------------------------------------------------------------ the state
VARIABLES
    pc,          \* where __init__ is: "init" (the attributes are copied from
                 \* config_dict), "checked", "ready" (returned), "exited"
    sky,         \* self.sky
    fixed_pars,  \* self.fixed_pars: a mapping name -> value
    var_pars,    \* self.var_pars: a list of names
    nus,         \* self.nus: the frequency list
    nside_spec,  \* self.nside_spec
    disk,        \* the maps stored in the files fpaths_mean and fpaths_vars
    data_mean,   \* self.data_mean, Unset before read_data
    data_vars,   \* self.data_vars
    nside_base,  \* self.nside_base
    executed,    \* the methods __init__ has run so far, in order
    caller,      \* the arrays and the parameter vector the caller holds
    ret,         \* the last call from outside: its name, arguments and result
    seen         \* an earlier call a caller kept to compare with (None, or
                 \* the call and the number of calls made since, up to 2)

vars == <<pc, sky, fixed_pars, var_pars, nus, nside_spec, disk,
          data_mean, data_vars, nside_base, executed, caller, ret, seen>>

config == <<sky, fixed_pars, var_pars, nus, nside_spec, disk>>
loaded == <<data_mean, data_vars, nside_base>>

\* The object the methods see.
Self ==
    [sky |-> sky, fixed_pars |-> fixed_pars, var_pars |-> var_pars, nus |-> nus,
     nside_spec |-> nside_spec, nside_base |-> nside_base,
     data_mean |-> data_mean, data_vars |-> data_vars]

\* ------------------------------------------------------- the input sets
FixedChoices == UNION {[S -> ParVals] : S \in SUBSET ParNames}
VarChoices == UNION {[1..n -> ParNames] : n \in 0..MaxVar}
ParamVectors == UNION {[1..n -> ParVals] : n \in 0..MaxVar}
Frequencies == <<1, 2, 3>>

\* Files holding maps of the given nside, one per frequency, whose every
\* entry tells its frequency, field and pixel.
DiskOf(nside, nfreq) ==
    LET npix == nside2npix(nside)
    IN  [mean |-> [k \in 1..nfreq |-> [j \in 1..NField |-> [p \in 1..npix |->
                      p + npix * (j - 1) + npix * NField * (k - 1)]]],
         vars |-> [k \in 1..nfreq |-> [j \in 1..NField |-> [p \in 1..npix |->
                      1 + ((p + j + k) % 3)]]]]

Disks == {DiskOf(n, Len(Frequencies)) : n \in Nsides}

\* The configurations the sky model accepts.
Accepted(skymodel, fixed, var) ==
    check_parameters(skymodel, fixed, var).err = "none"

\* A caller that holds no map yet.
NoArrays == [d_map |-> <<>>, n_ivar_map |-> <<>>, spec_params |-> <<>>]

\* ------------------------------------------------------------- __init__
\* Lines 41-42 are done: the attributes hold config_dict's entries.
InitWith(skys, fixeds, vrs, nsides, disks) ==
    /\ pc = "init"
    /\ sky \in skys
    /\ fixed_pars \in fixeds
    /\ var_pars \in vrs
    /\ nus = Frequencies
    /\ nside_spec \in nsides
    /\ disk \in disks
    /\ data_mean = Unset
    /\ data_vars = Unset
    /\ nside_base = Unset
    /\ executed = <<>>
    /\ caller = NoArrays
    /\ ret = [op |-> "none"]
    /\ seen = None

\* Line 43.  When check_parameters exits, __init__ ends with SystemExit.
CheckParameters ==
    /\ pc = "init"
    /\ LET c == check_parameters(sky, fixed_pars, var_pars)
       IN  /\ pc' = IF c.err = "none" THEN "checked" ELSE "exited"
           /\ ret' = IF c.err = "none" THEN ret
                     ELSE [op |-> "__init__", res |-> Raise(c.err, <<>>),
                           printed |-> c.printed]
    /\ executed' = Append(executed, "check_parameters")
    /\ UNCHANGED <<config, loaded, caller, seen>>

\* Line 45, read_data, and the return of __init__.
ReadData ==
    /\ pc = "checked"
    /\ data_mean' = disk.mean
    /\ data_vars' = disk.vars
    /\ nside_base' = get_nside(disk.mean[1][1])
    /\ pc' = "ready"
    /\ executed' = Append(executed, "read_data")
    /\ ret' = [op |-> "__init__", res |-> Return(None, <<>>), printed |-> ""]
    /\ UNCHANGED <<config, caller, seen>>

\* --------------------------------------------------- calls from outside
\* A kept call counts the calls made after it.
Later(kept) ==
    IF kept = None THEN None
    ELSE Some([call |-> kept[1].call, since |-> Min(kept[1].since + 1, 2)])

\* A slip f_matrix invites: the update made on self.fixed_pars, which then
\* keeps the variable parameters of the call.
CallKeepingParams(name, args, res) ==
    /\ pc = "ready"
    /\ ret' = [op |-> name, args |-> args, res |-> res]
    /\ seen' = Later(seen)
    /\ fixed_pars' = IF name = "f_matrix"
                     THEN DictUpdate(fixed_pars, ZipDict(var_pars, args[1]))
                     ELSE fixed_pars
    /\ UNCHANGED <<pc, sky, var_pars, nus, nside_spec, disk, loaded, executed,
                   caller>>

\* None of the methods assigns an attribute of self or an element of an
\* argument: a call leaves the object and the caller's arrays as they were.
Call(name, args, res) ==
    /\ pc = "ready"
    /\ ret' = [op |-> name, args |-> args, res |-> res]
    /\ seen' = Later(seen)
    /\ UNCHANGED <<pc, config, loaded, executed, caller>>

\* The caller keeps the call just made, to compare a later one with it.
Remember ==
    /\ pc = "ready"
    /\ ret.op # "__init__"
    /\ seen' = Some([call |-> ret, since |-> 0])
    /\ UNCHANGED <<pc, config, loaded, executed, caller, ret>>

FMatrixFor(vectors) ==
    \E v \in vectors : Call("f_matrix", <<v>>, f_matrix(Self, v))

FMatrix == FMatrixFor(ParamVectors)

\* The region selections tried: None, an int, a list of up to two regions
\* and a tuple.
SelRegions == {r \in {0, 1, 5, nside2npix(nside_spec) - 1} :
                  r < nside2npix(nside_spec)}
SelLists == {<<>>} \cup {<<r>> : r \in SelRegions}
            \cup {<<r, q>> : r \in SelRegions, q \in SelRegions}
Selections ==
    {[kind |-> "none", val |-> None], [kind |-> "tuple", val |-> <<0>>]}
    \cup {[kind |-> "int", val |-> <<r>>] : r \in SelRegions}
    \cup {[kind |-> "list", val |-> l] : l \in SelLists}

SplitData ==
    \E ipix \in Selections : Call("split_data", <<ipix>>, split_data(Self, ipix))

Next == CheckParameters \/ ReadData \/ FMatrix

\* Construction and the mixing matrix, on files of nside 1.
Spec == InitWith(SkyModels, FixedChoices, VarChoices, {1},
                 {DiskOf(1, Len(Frequencies))})
        /\ [][Next]_vars

\* Construction and split_data, for every pair of resolutions.
NextSplit == CheckParameters \/ ReadData \/ SplitData

SpecSplit ==
    InitWith({[comps |-> <<"cmb">>, npol |-> 1]}, {<<>>}, {<<>>}, Nsides, Disks)
    /\ [][NextSplit]_vars

\* ------------------------------------------- the estimator, called on maps
\* What one pixel of the caller's maps holds at the three frequencies.
PixelKinds ==
    {[d |-> <<2, 2, 2>>, n |-> <<1, 1, 1>>],
     [d |-> <<2, 2, 4>>, n |-> <<1, 1, 1>>],
     [d |-> <<2, 2, 4>>, n |-> <<0, 0, 0>>],
     [d |-> <<2, 2, 4>>, n |-> <<1, 0, 0>>]}

\* Maps (N_freq, N_pol, N_pix) of the given pixels; polarization channel j
\* measures j - 1 more than the first.
DMapOf(npol, pixels) ==
    [k \in 1..Len(Frequencies) |-> [j \in 1..npol |->
        [l \in 1..Len(pixels) |-> pixels[l].d[k] + (j - 1)]]]
NIvarMapOf(npol, pixels) ==
    [k \in 1..Len(Frequencies) |-> [j \in 1..npol |->
        [l \in 1..Len(pixels) |-> pixels[l].n[k]]]]

\* The vectors tried on var_pars: the empty one and those of its length.
StatVectors(var) == {<<>>} \cup [1..Len(var) -> ParVals]

\* The pixel lists tried: any kind of first pixel, followed by pixels that
\* are well measured or not measured at all.
FirstKind == [d |-> <<2, 2, 2>>, n |-> <<1, 1, 1>>]
BlindKind == [d |-> <<2, 2, 4>>, n |-> <<0, 0, 0>>]
PixelLists ==
    {px \in UNION {[1..n -> PixelKinds] : n \in 1..MaxPix} :
        \A l \in 2..Len(px) : px[l] \in {FirstKind, BlindKind}}

Callers(npol, var) ==
    {[d_map |-> DMapOf(npol, px), n_ivar_map |-> NIvarMapOf(npol, px),
      spec_params |-> v] :
        px \in PixelLists, v \in StatVectors(var)}

\* A matrix of the shape of fm that the sky model did not give: twice fm.
Twice(fm) ==
    [i \in 1..Len(fm) |-> [j \in 1..Len(fm[i]) |-> [k \in 1..Len(fm[i][j]) |->
        2 * fm[i][j][k]]]]

\* The f_matrix arguments a caller passes: none, the matrix f_matrix gives
\* for its parameter vector, or another matrix.
FmArgs ==
    LET f == f_matrix(Self, caller.spec_params)
    IN  IF f.err # "none" THEN {None}
        ELSE {None, Some(f.val), Some(Twice(f.val))}

\* The nt_inv_matrix arguments: none, or the covariance of the same call.
NtArgs(fm_arg) ==
    LET c == get_amplitude_covariance(Self, caller.n_ivar_map,
                                      caller.spec_params, fm_arg)
    IN  IF c.err # "none" THEN {None} ELSE {None, Some(c.val)}

GetAmplitudeCovariance ==
    \E fm \in FmArgs :
        Call("get_amplitude_covariance", <<caller.n_ivar_map, caller.spec_params, fm>>,
             get_amplitude_covariance(Self, caller.n_ivar_map,
                                      caller.spec_params, fm))

GetAmplitudeMean ==
    \E fm \in FmArgs : \E nt \in NtArgs(fm) :
        Call("get_amplitude_mean",
             <<caller.d_map, caller.n_ivar_map, caller.spec_params, fm, nt>>,
             get_amplitude_mean(Self, caller.d_map, caller.n_ivar_map,
                                caller.spec_params, fm, nt))

MarginalSpectralLikelihood ==
    Call("marginal_spectral_likelihood",
         <<caller.spec_params, caller.d_map, caller.n_ivar_map>>,
         marginal_spectral_likelihood(Self, caller.spec_params, caller.d_map,
                                      caller.n_ivar_map))

Chi2 ==
    \E fm \in FmArgs :
        Call("chi2", <<caller.spec_params, caller.d_map, caller.n_ivar_map, fm>>,
             chi2(Self, caller.spec_params, caller.d_map, caller.n_ivar_map, fm))

Chi2perdof ==
    \E fm \in FmArgs :
        Call("chi2perdof",
             <<caller.spec_params, caller.d_map, caller.n_ivar_map, fm>>,
             chi2perdof(Self, caller.spec_params, caller.d_map,
                        caller.n_ivar_map, fm))

Pval ==
    \E fm \in FmArgs :
        Call("pval", <<caller.spec_params, caller.d_map, caller.n_ivar_map, fm>>,
             pval(Self, caller.spec_params, caller.d_map, caller.n_ivar_map, fm))

NextStat ==
    \/ FMatrixFor({caller.spec_params})
    \/ GetAmplitudeCovariance
    \/ GetAmplitudeMean
    \/ MarginalSpectralLikelihood
    \/ Chi2
    \/ Chi2perdof
    \/ Pval

\* A MapLike that __init__ has returned, on files of nside 1, and a caller
\* holding maps for it.  The sky models have one polarization channel, or
\* one component; the fixed values are 1 and 2, and beta_s may vary.
InitStat ==
    /\ pc = "ready"
    /\ sky \in {m \in SkyModels : m.npol = 1 \/ Len(m.comps) = 1}
    /\ fixed_pars \in UNION {[S -> {1, 2}] : S \in SUBSET ParNames}
    /\ var_pars \in {<<>>, <<"beta_s">>}
    /\ Accepted(sky, fixed_pars, var_pars)
    /\ nus = Frequencies
    /\ nside_spec = 1
    /\ disk = DiskOf(1, Len(Frequencies))
    /\ data_mean = disk.mean
    /\ data_vars = disk.vars
    /\ nside_base = get_nside(disk.mean[1][1])
    /\ executed = <<"check_parameters", "read_data">>
    /\ caller \in Callers(sky.npol, var_pars)
    /\ ret = [op |-> "__init__", res |-> Return(None, <<>>), printed |-> ""]
    /\ seen = None

SpecStat == InitStat /\ [][NextStat]_vars

\* -------------------------------------- every method, called repeatedly
\* split_data on all regions, on one region and on a list of regions.
FewSelections ==
    {[kind |-> "none", val |-> None], [kind |-> "int", val |-> <<0>>],
     [kind |-> "list", val |-> <<1, 0>>]}

SplitDataFew ==
    \E ipix \in FewSelections :
        Call("split_data", <<ipix>>, split_data(Self, ipix))

NextPure ==
    \/ FMatrixFor(StatVectors(var_pars))
    \/ SplitDataFew
    \/ GetAmplitudeCovariance
    \/ GetAmplitudeMean
    \/ MarginalSpectralLikelihood
    \/ Chi2
    \/ Chi2perdof
    \/ Pval
    \/ Remember

\* A constructed MapLike with at most two components and one polarization
\* channel; the caller holds one pixel, well measured or not measured, and
\* a parameter vector of ones.
InitPure ==
    /\ InitStat
    /\ sky.npol = 1
    /\ Len(sky.comps) <= 2
    /\ caller.d_map \in {DMapOf(1, <<k>>) : k \in {FirstKind, BlindKind}}
    /\ caller.n_ivar_map \in {NIvarMapOf(1, <<k>>) : k \in {FirstKind, BlindKind}}
    /\ caller.spec_params = [i \in 1..Len(var_pars) |-> 1]

SpecPure == InitPure /\ [][NextPure]_vars

\* ================================================== split_data (C3 - C5)
IsSplit == pc = "ready" /\ ret.op = "split_data"
SplitArg == ret.args[1]
Groups == ret.res.val

\* The files hold, at frequency 1 and field 1, pixel number + 1 (DiskOf):
\* the pixels of a yielded group are read off its mean.
GroupPixelList(g) == [l \in 1..Len(g[1][1][1]) |-> g[1][1][1][l] - 1]
GroupPixelSet(g) == {GroupPixelList(g)[l] : l \in 1..Len(g[1][1][1])}

Divisible == nside2npix(nside_base) % nside2npix(nside_spec) = 0

\* The base pixels lying inside region r: those of r's face whose square
\* [x, x+1) x [y, y+1), in units of the base grid, is inside the region's.
RegionPixels(r) ==
    LET reg == nest2xyf(nside_spec, r)
        inside(c, rc) == /\ c * nside_spec >= rc * nside_base
                         /\ (c + 1) * nside_spec <= (rc + 1) * nside_base
    IN  {xyf2ring(nside_base, x, y, reg.face) :
            <<x, y>> \in {q \in (0..(nside_base - 1)) \X (0..(nside_base - 1)) :
                            inside(q[1], reg.ix) /\ inside(q[2], reg.iy)}}

\* The regions a selection asks for, in the order it asks for them.
Requested ==
    IF SplitArg.kind = "none"
    THEN [k \in 1..nside2npix(nside_spec) |-> k - 1]
    ELSE SplitArg.val

\* C3: when the region pixel count divides the base pixel count, a full
\* sweep of split_data puts every base pixel in exactly one yielded group,
\* and every group has base_pixel_count / region_pixel_count pixels.  (One
\* group per region, each of that size, together covering the base pixels:
\* no pixel can then be in two groups or twice in one.)
C3_PartitionComplete ==
    (IsSplit /\ SplitArg.kind = "none" /\ Divisible) =>
        /\ ret.res.err = "none"
        /\ Len(Groups) = nside2npix(nside_spec)
        /\ UNION {GroupPixelSet(Groups[k]) : k \in 1..Len(Groups)}
              = 0..(nside2npix(nside_base) - 1)
        /\ \A k \in 1..Len(Groups) :
              Len(GroupPixelList(Groups[k])) * nside2npix(nside_spec)
                  = nside2npix(nside_base)

C3_Witness ==
    /\ IsSplit /\ SplitArg.kind = "none" /\ Divisible
    /\ nside_spec < nside_base
    /\ nside_spec > 1
    /\ ret.res.err = "none"

\* C4: for a single region, a list of regions and no selection (regions
\* 0, 1, ... in ascending order), split_data yields one (mean, variance)
\* group per requested region, in request order; the k-th group is the
\* data at the base pixels of the k-th requested region, and holds one
\* base pixel when the region resolution equals the base resolution.
C4_OneGroupPerRegion ==
    (IsSplit /\ SplitArg.kind \in {"none", "int", "list"}) =>
        /\ ret.res.err = "none"
        /\ Len(Groups) = Len(Requested)
        /\ SplitArg.kind = "int" => Len(Groups) = 1
        /\ \A k \in 1..Len(Groups) :
              LET px == GroupPixelList(Groups[k])
              IN  /\ GroupPixelSet(Groups[k]) = RegionPixels(Requested[k])
                  /\ Len(px) = Cardinality(RegionPixels(Requested[k]))
                  /\ Groups[k][1] = TakePixels(data_mean, px)
                  /\ Groups[k][2] = TakePixels(data_vars, px)
                  /\ nside_spec = nside_base => Len(px) = 1

C4_Witness ==
    /\ IsSplit /\ SplitArg.kind = "list"
    /\ Len(SplitArg.val) = 2
    /\ SplitArg.val[1] > SplitArg.val[2]
    /\ nside_spec < nside_base
    /\ Len(Groups) = 2
    /\ GroupPixelSet(Groups[1]) # GroupPixelSet(Groups[2])

\* C5 as claimed: when the base pixel count is not a multiple of the region
\* pixel count, split_data fails with ConfigError and yields no group.
C5_IndivisibleFails ==
    (IsSplit /\ ~Divisible) => (ret.res.err = "ConfigError" /\ Groups = None)

\* ================================================ construction (C1, C2)
VarNames == {var_pars[i] : i \in 1..Len(var_pars)}

\* The configurations the claims call valid.
ValidConfig ==
    /\ DOMAIN fixed_pars \cup VarNames = get_param_names(sky)
    /\ DOMAIN fixed_pars \cap VarNames = {}

\* C1 as claimed: construction succeeds exactly for the valid
\* configurations, and every other one fails with ConfigError, saying
\* 'parameter declared both fixed and variable' for a name in both sets and
\* 'parameter mismatch between model and configuration' for a set mismatch.
C1_ValidationOutcome ==
    /\ pc = "ready" => ValidConfig
    /\ ValidConfig => pc # "exited"
    /\ pc = "exited" =>
          /\ ret.res.err = "ConfigError"
          /\ ret.printed =
                IF DOMAIN fixed_pars \cap VarNames # {}
                THEN "parameter declared both fixed and variable"
                ELSE "parameter mismatch between model and configuration"

EstimatorOps ==
    {"split_data", "f_matrix", "get_amplitude_covariance", "get_amplitude_mean",
     "marginal_spectral_likelihood", "chi2", "chi2perdof", "pval"}

\* C2: __init__ validates before it loads, and a failed validation ends
\* it: read_data does not run, data_mean, data_vars and nside_base stay
\* unset, and no estimator method computes anything.
C2_ValidationGate ==
    /\ executed \in {<<>>, <<"check_parameters">>,
                     <<"check_parameters", "read_data">>}
    /\ (pc = "ready") = (executed = <<"check_parameters", "read_data">>)
    /\ (~ValidConfig /\ executed # <<>>) =>
          /\ pc = "exited"
          /\ executed = <<"check_parameters">>
          /\ data_mean = Unset /\ data_vars = Unset /\ nside_base = Unset
          /\ ret.op = "__init__" /\ ret.res.err # "none"
    /\ ret.op \in EstimatorOps => (ValidConfig /\ pc = "ready")

C2_Witness ==
    /\ pc = "exited"
    /\ ~ValidConfig
    /\ executed = <<"check_parameters">>
    /\ data_mean = Unset

\* ========================================================= f_matrix (C6)
IsFMatrix == pc = "ready" /\ ret.op = "f_matrix"

\* C6 as claimed: f_matrix(v) calls the sky model's response once with the
\* frequency list and a mapping whose keys are exactly the required names,
\* the i-th name of var_pars mapped to the i-th element of v and every
\* fixed name to its fixed value, and returns what the sky model returns.
C6_MappingPositional ==
    IsFMatrix =>
        LET v == ret.args[1]
            r == ret.res
        IN  /\ Len(r.calls) = 1
            /\ r.calls[1].nus = nus
            /\ DOMAIN r.calls[1].params = get_param_names(sky)
            /\ \A i \in 1..Len(var_pars) :
                  /\ i <= Len(v)
                  /\ r.calls[1].params[var_pars[i]] = v[i]
            /\ \A n \in DOMAIN fixed_pars : r.calls[1].params[n] = fixed_pars[n]
            /\ r = fnu(sky, nus, r.calls[1].params)

\* C6 amended: the mapping holds every fixed name with its fixed value and,
\* for i up to min(len(var_pars), len(v)), the i-th name of var_pars with
\* the i-th element of v unless the same name comes again later (the later
\* pair wins); its keys are exactly the required names when v has at least
\* len(var_pars) elements.  One call, the configured frequencies, and the
\* sky model's result or error handed back as it is.
C6_MappingState ==
    IsFMatrix =>
        LET v == ret.args[1]
            r == ret.res
            m == Min(Len(var_pars), Len(v))
            params == r.calls[1].params
        IN  /\ Len(r.calls) = 1
            /\ r.calls[1].nus = nus
            /\ DOMAIN params = DOMAIN fixed_pars \cup {var_pars[i] : i \in 1..m}
            /\ Len(v) >= Len(var_pars) => DOMAIN params = get_param_names(sky)
            /\ \A i \in 1..m :
                  (\A j \in (i + 1)..m : var_pars[j] # var_pars[i])
                      => params[var_pars[i]] = v[i]
            /\ \A n \in DOMAIN fixed_pars : params[n] = fixed_pars[n]
            /\ r = fnu(sky, nus, params)

\* C6 (amended): every f_matrix(v) call makes exactly one sky-model call with
\* the configured frequencies and a mapping that holds each fixed name with
\* its fixed value and, for i up to min(len(var_pars), len(v)), the i-th
\* variable name with v[i] unless that name recurs later in var_pars; the
\* sky model's result or error is returned unchanged, and fixed_pars is the
\* same after the call as before it.
C6_MappingAmended ==
    /\ []C6_MappingState
    /\ [][ret'.op = "f_matrix" => fixed_pars' = fixed_pars]_vars

C6_Witness ==
    /\ IsFMatrix
    /\ DOMAIN fixed_pars # {}
    /\ Len(var_pars) = 1
    /\ Len(ret.args[1]) = 1
    /\ ret.res.err = "none"
    /\ ret.res.calls[1].params[var_pars[1]] = 2

\* ================================================ the estimator (C7 - C10)
IsCall(name) == pc = "ready" /\ ret.op = name

\* The information matrix get_amplitude_mean solves with in the call
\* recorded in ret has a singular (polarization, pixel) slice.
MeanCallSingular ==
    LET f == IF ret.args[4] = None THEN f_matrix(Self, ret.args[3])
             ELSE Return(ret.args[4][1], <<>>)
    IN  /\ f.err = "none"
        /\ LET nt == IF ret.args[5] = None THEN AmpCovarInv(f.val, ret.args[2])
                     ELSE ret.args[5][1]
           IN  \E i \in 1..Len(nt) : \E l \in 1..Len(nt[i]) : Det(nt[i][l]) = 0

\* C7 as claimed: when a slice of the information matrix is singular,
\* get_amplitude_mean fails with SingularSystemError and returns no array.
C7_SingularReported ==
    (IsCall("get_amplitude_mean") /\ MeanCallSingular) =>
        (ret.res.err = "SingularSystemError" /\ ret.res.val = None)

\* n_frequencies*n_polarization*n_pixels - len(var_pars)
\*     - n_polarization*n_pixels*n_components, for the caller's maps.
ClaimedDof ==
    Len(caller.d_map) * sky.npol * NPix(caller.d_map) - Len(var_pars)
        - sky.npol * NPix(caller.d_map) * Len(sky.comps)

\* The chi2 of the call recorded in ret (its arguments are chi2's).
Chi2OfCall == chi2(Self, ret.args[1], ret.args[2], ret.args[3], ret.args[4])

\* C8 as claimed: where the amplitude solution exists, chi2perdof and pval
\* return a value when the degrees of freedom are positive and fail with
\* DegenerateFitError when they are not.
C8_DofDecides ==
    ((IsCall("chi2perdof") \/ IsCall("pval")) /\ Chi2OfCall.err = "none") =>
        IF ClaimedDof > 0
        THEN ret.res.err = "none" /\ ret.res.val # None
        ELSE ret.res.err = "DegenerateFitError"

\* The scenario of C9 and C10: three frequencies, one polarization channel,
\* one pixel, the single component cmb (F = [1, 1, 1]), no variable
\* parameter, n_ivar = [1, 1, 1], and the given data.
Scenario(d) ==
    /\ pc = "ready"
    /\ sky = [comps |-> <<"cmb">>, npol |-> 1]
    /\ var_pars = <<>>
    /\ caller.d_map = <<<<<<d[1]>>>>, <<<<d[2]>>>>, <<<<d[3]>>>>>>
    /\ caller.n_ivar_map = <<<<<<1>>>>, <<<<1>>>>, <<<<1>>>>>>
    /\ caller.spec_params = <<>>

Ones == <<<<<<1, 1, 1>>>>>>

\* The call recorded in ret was given no f_matrix, or F = [1, 1, 1].
WithScenarioMatrix(fm_arg) == fm_arg = None \/ fm_arg = Some(Ones)

\* C9 as claimed: with d = [2, 2, 2] the covariance inverse is 3, the
\* weighted data 6, the amplitude 2, chi2 0, the degrees of freedom 2, and
\* pval returns 1.
C9_ConcreteScenario ==
    Scenario(<<2, 2, 2>>) =>
        /\ WeightedData(Ones, caller.n_ivar_map, caller.d_map) = <<<<<<6>>>>>>
        /\ (IsCall("get_amplitude_covariance") /\ WithScenarioMatrix(ret.args[3]))
              => ret.res.val = <<<<<<<<3>>>>>>>>
        /\ (IsCall("get_amplitude_mean") /\ WithScenarioMatrix(ret.args[4]))
              => ret.res.val = <<<<<<Q(2)>>>>>>
        /\ (IsCall("chi2") /\ WithScenarioMatrix(ret.args[4]))
              => ret.res.val = Q(0)
        /\ ClaimedDof = 2
        /\ (IsCall("pval") /\ WithScenarioMatrix(ret.args[4]))
              => (ret.res.err = "none" /\ ret.res.val = Q(1))

\* C10 as claimed: with d = [2, 2, 4] the residual is [0, 0, 2], chi2
\* returns 4 and chi2perdof returns 2.
C10_MismatchAsClaimed ==
    Scenario(<<2, 2, 4>>) =>
        /\ (IsCall("chi2") /\ WithScenarioMatrix(ret.args[4])) =>
              /\ ret.res.val = Q(4)
              /\ Residual(caller.d_map, Ones,
                          get_amplitude_mean(Self, caller.d_map, caller.n_ivar_map,
                                             <<>>, None, None).val)
                    = <<<<<<Q(0)>>>>, <<<<Q(0)>>>>, <<<<Q(2)>>>>>>
        /\ (IsCall("chi2perdof") /\ WithScenarioMatrix(ret.args[4]))
              => (ret.res.err = "none" /\ ret.res.val = Q(2))

\* C10 amended: with d = [2, 2, 4] the amplitude is 8/3, the residual chi2
\* computes is [-2/3, -2/3, 4/3], chi2 returns 8/3 and the degrees of
\* freedom are 2 (so chi2 / dof is 4/3); chi2perdof hands back no value,
\* it raises NameError (see C8).
C10_MismatchAmended ==
    Scenario(<<2, 2, 4>>) =>
        /\ (IsCall("get_amplitude_mean") /\ WithScenarioMatrix(ret.args[4]))
              => ret.res.val = <<<<<<Rat(8, 3)>>>>>>
        /\ (IsCall("chi2") /\ WithScenarioMatrix(ret.args[4])) =>
              /\ ret.res.err = "none"
              /\ ret.res.val = Rat(8, 3)
              /\ RDiv(ret.res.val, Q(ClaimedDof)) = Rat(4, 3)
        /\ Residual(caller.d_map, Ones, <<<<<<Rat(8, 3)>>>>>>)
              = <<<<<<Rat(-2, 3)>>>>, <<<<Rat(-2, 3)>>>>, <<<<Rat(4, 3)>>>>>>
        /\ ClaimedDof = 2
        /\ Chi2Dof(Self, caller.d_map, <<<<<<Rat(8, 3)>>>>>>) = 2
        /\ IsCall("chi2perdof") => ret.res.err = "NameError"

C10_Witness ==
    /\ Scenario(<<2, 2, 4>>)
    /\ IsCall("chi2")
    /\ ret.args[4] = None
    /\ ret.res.val = Rat(8, 3)

\* ============================================= purity of the calls (C11)
HasSeen == pc = "ready" /\ seen # None
SeenCall == seen[1].call
Repeated == HasSeen /\ ret.op = SeenCall.op /\ ret.args = SeenCall.args

\* A call made again with the arguments of the kept one gives what the
\* kept one gave, value or error, whatever was called in between.
C11_RepeatState == Repeated => ret.res = SeenCall.res

MeanArgs ==
    [d_map |-> ret.args[1], n_ivar_map |-> ret.args[2],
     spec_params |-> ret.args[3], f_matrix |-> ret.args[4],
     nt_inv_matrix |-> ret.args[5]]

\* The matrices given are the ones f_matrix and get_amplitude_covariance
\* return for the call's spec_params and n_ivar_map.
MeanOnOwnMatrices ==
    /\ IsCall("get_amplitude_mean")
    /\ MeanArgs.f_matrix # None
    /\ MeanArgs.nt_inv_matrix # None
    /\ LET f == f_matrix(Self, MeanArgs.spec_params)
           c == get_amplitude_covariance(Self, MeanArgs.n_ivar_map,
                                         MeanArgs.spec_params, None)
       IN  /\ f.err = "none" /\ MeanArgs.f_matrix = Some(f.val)
           /\ c.err = "none" /\ MeanArgs.nt_inv_matrix = Some(c.val)

\* C12: get_amplitude_mean given f_matrix(spec_params) and
\* get_amplitude_covariance(n_ivar_map, spec_params) returns what the call
\* with both omitted returns (the same amplitudes, or the same error); when
\* f_matrix is given the sky model is not invoked, and when nt_inv_matrix is
\* given get_amplitude_covariance is not called.
C12_GivenMatrices ==
    /\ MeanOnOwnMatrices =>
           LET own == get_amplitude_mean(Self, MeanArgs.d_map,
                                         MeanArgs.n_ivar_map,
                                         MeanArgs.spec_params, None, None)
           IN  ret.res.err = own.err /\ ret.res.val = own.val
    /\ (IsCall("get_amplitude_mean") /\ MeanArgs.f_matrix # None) =>
           /\ ret.res.calls = <<>>
           /\ \A i \in 1..Len(ret.res.invoked) : ret.res.invoked[i] # "f_matrix"
    /\ (IsCall("get_amplitude_mean") /\ MeanArgs.nt_inv_matrix # None) =>
           \A i \in 1..Len(ret.res.invoked) :
               ret.res.invoked[i] # "get_amplitude_covariance"

\* Amplitudes of two components came back from a call given both matrices.
C12_Witness ==
    /\ MeanOnOwnMatrices
    /\ Len(sky.comps) = 2
    /\ ret.res.err = "none"
    /\ ret.res.invoked = <<>>

\* ================================== chi2 on a caller's mixing matrix (C13)
Chi2Args ==
    [spec_params |-> ret.args[1], d_map |-> ret.args[2],
     n_ivar_map |-> ret.args[3], f_matrix |-> ret.args[4]]

Chi2OnGivenMatrix == IsCall("chi2") /\ Chi2Args.f_matrix # None

\* C13: for a caller-supplied f_matrix F, chi2(spec_params, d, n_ivar,
\* f_matrix=F) is the noise-weighted sum of squares of d - F*T, where
\* T = get_amplitude_mean(d, n_ivar, spec_params, f_matrix=F), or fails as
\* that call fails, and the sky model is not invoked during the call.
C13_SameMatrixResidual ==
    Chi2OnGivenMatrix =>
        LET F == Chi2Args.f_matrix[1]
            T == get_amplitude_mean(Self, Chi2Args.d_map, Chi2Args.n_ivar_map,
                                    Chi2Args.spec_params, Some(F), None)
        IN  /\ ret.res.calls = <<>>
            /\ ret.res.err = T.err
            /\ T.err = "none" =>
                   ret.res.val = WeightedSquares(Residual(Chi2Args.d_map, F, T.val),
                                                 Chi2Args.n_ivar_map)

\* The value alone: what chi2 returns for a given matrix is the weighted
\* sum of squares the claim names.
C13_ValueOnly ==
    (Chi2OnGivenMatrix /\ ret.res.err = "none") =>
        LET F == Chi2Args.f_matrix[1]
            T == get_amplitude_mean(Self, Chi2Args.d_map, Chi2Args.n_ivar_map,
                                    Chi2Args.spec_params, Some(F), None)
        IN  ret.res.val = WeightedSquares(Residual(Chi2Args.d_map, F, T.val),
                                          Chi2Args.n_ivar_map)

\* The sky model alone: no call to it during chi2 on a given matrix.
C13_NoSkyCall == Chi2OnGivenMatrix => ret.res.calls = <<>>

====
